---- MODULE Spec2Model ----
(***************************************************************************)
(* Model of pycloudflare/models.py: the client-side object model (User,    *)
(* Zone, ZoneSettings, Record) over the remote DNS provider.  The remote   *)
(* provider is modelled as the state the service calls read and write; the *)
(* lazily cached properties are modelled as explicit cache slots.          *)
(***************************************************************************)
EXTENDS Integers, Sequences, FiniteSets, TLC

\* ------------------------------------------------------------------ bounds
MaxRecObjs == 2      \* Record objects the caller holds at one time
MaxZoneObjs == 2     \* Zone objects the caller holds at one time
MaxRecId == 2        \* record ids the provider hands out
MaxZoneId == 2       \* zone ids the provider hands out
MaxPageSize == 2     \* page sizes of the paginated listings
MaxSeed == 3         \* records the host endpoint seeds into a new zone

\* ------------------------------------------------------------- input sets
Names == {"a", "b"}
Types == {"A", "MX"}
Contents == {"1.1.1.1", "2.2.2.2"}
\* defaults of Zone.create_record(name, type, content, ttl=1, proxied=False,
\* priority=10)
DefaultTtl == 1
DefaultProxied == FALSE
DefaultPriority == 10
Ttls == {DefaultTtl, 300}
Proxieds == BOOLEAN
Priorities == {DefaultPriority, 20}
ZoneNames == {"x.com", "y.com"}
PageSizes == 1..MaxPageSize
RecHandles == 1..MaxRecObjs
ZoneHandles == 1..MaxZoneObjs
ZoneIds == 1..MaxZoneId
\* setting names a caller writes; "bogus" is no setting id of the provider
SettingNames == {"ipv6", "plan", "ssl", "bogus"}
SettingValues == {"off", "on"}
\* fields a caller writes on a Record; "comment" is in no snapshot
WriteFields == {"name", "content", "comment"}
\* fields a caller reads from a Record
ReadFields == WriteFields \cup {"type"}
WriteValues == [name |-> {"b"}, content |-> {"1.1.1.1"}, comment |-> {"1.1.1.1"}]

\* ----------------------------------------------------------------- helpers
Min(a, b) == IF a <= b THEN a ELSE b

EmptyDict == <<>>

\* dict.update(other): overwrite key by key, keep the keys other lacks
DictUpdate(d, other) ==
  [k \in (DOMAIN d) \cup (DOMAIN other) |->
      IF k \in DOMAIN other THEN other[k] ELSE d[k]]

DictSet(d, k, v) == DictUpdate(d, k :> v)

\* Python's ordering of the strings the model uses (code point order)
Lexicon == <<"1.1.1.1", "2.2.2.2", "A", "MX", "bogus", "ipv6", "plan", "ssl">>
Rank(s) == CHOOSE i \in 1..Len(Lexicon) : Lexicon[i] = s

\* tuple comparison (type, content) < (type, content)
KeyLess(k1, k2) ==
  \/ Rank(k1[1]) < Rank(k2[1])
  \/ k1[1] = k2[1] /\ Rank(k1[2]) < Rank(k2[2])

\* ------------------------------------------------- the paginated listings
\* One provider page: the page-th slice of the listing as it is when asked
PageOf(listing, page, size) ==
  SubSeq(listing, (page - 1) * size + 1, Min(page * size, Len(listing)))

TotalPages(listing, size) == (Len(listing) + size - 1) \div size

\* page requests a full drain issues (the first page is always requested)
PagesFetched(listing, size) ==
  IF TotalPages(listing, size) = 0 THEN 1 ELSE TotalPages(listing, size)

\* list(CloudFlarePageIterator(method)): page after page until the last one
RECURSIVE Drain(_, _, _)
Drain(listing, page, size) ==
  IF page >= TotalPages(listing, size)
  THEN PageOf(listing, page, size)
  ELSE PageOf(listing, page, size) \o Drain(listing, page + 1, size)


\* ------------------------------------------------------------------- state
VARIABLES
  remoteZones,     \* provider: the account's zone listing (sequence of blobs)
  nextZoneId,      \* provider: next zone id
  remoteRecords,   \* provider: zone id -> listing (sequence) of record blobs
  nextRecId,       \* provider: next record id
  remoteSettings,  \* provider: the zone's listing of [id, value, editable] blobs
  madeBy,          \* how the User was built: User(...), User.get, User.get_or_create
  hostApiData,     \* User._host_api_data cache slot
  zonesCache,      \* User.zones cache slot (a list of Zone handles)
  zone,            \* Zone objects: handle -> [live, origin, data, records]
  settings,        \* Zone.settings cache slot: the ZoneSettings object
  rec,             \* Record objects: handle -> [live, zone, data, updates]
  lastOp,          \* the last call of the caller and its outcome
  calls            \* remote requests the last call issued, in order

provider == <<remoteZones, nextZoneId, remoteRecords, nextRecId, remoteSettings>>
vars == <<remoteZones, nextZoneId, remoteRecords, nextRecId, remoteSettings,
          madeBy, hostApiData, zonesCache, zone, settings, rec, lastOp, calls>>

\* one request to the provider: the service method and the data it carries
Req(method, args) == [method |-> method, args |-> args]

\* the page requests 1..n of a paginated service method
PageRequests(method, n) == [i \in 1..n |-> Req(method, [page |-> i])]

\* a cached_property slot
NotCached == [cached |-> FALSE, value |-> EmptyDict]
Cached(v) == [cached |-> TRUE, value |-> v]

NoZone == [live |-> FALSE, origin |-> "", data |-> EmptyDict, records |-> NotCached]
NoRec == [live |-> FALSE, zone |-> 0, data |-> EmptyDict, updates |-> EmptyDict]
NoSettings == [built |-> FALSE, settings |-> EmptyDict, updates |-> EmptyDict]

\* outcome of a call: what was called on which object, what it raised, the
\* remote ids and names the call was about, and what the call got back
BaseOp(op) ==
  [op |-> op, ok |-> TRUE, err |-> "", zone |-> 0, rec |-> 0, id |-> 0,
   arg |-> "", old |-> "", new |-> "", failed |-> {}, args |-> EmptyDict,
   result |-> EmptyDict]
Returned(op, z, r) == [BaseOp(op) EXCEPT !.zone = z, !.rec = r]
Raised(op, err, z, r) ==
  [BaseOp(op) EXCEPT !.ok = FALSE, !.err = err, !.zone = z, !.rec = r]

\* ------------------------------------------------------------ Record reads
\* faulty variant: the snapshot is looked at before the pending edits
RecordGetAttrSnapshotFirst(r, name) ==
  IF name \in DOMAIN r.data THEN r.data[name]
  ELSE IF name \in DOMAIN r.updates THEN r.updates[name]
  ELSE "AttributeError"

\* Record.__getattr__
RecordGetAttr(r, name) ==
  IF name \in DOMAIN r.updates THEN r.updates[name]
  ELSE IF name \in DOMAIN r.data THEN r.data[name]
  ELSE "AttributeError"

\* Zone.__getattr__
ZoneGetAttr(zo, name) ==
  IF name \in DOMAIN zo.data THEN zo.data[name] ELSE "AttributeError"

\* key=lambda r: (r.type, r.content)
SortKey(tbl, h) ==
  <<RecordGetAttr(tbl[h], "type"), RecordGetAttr(tbl[h], "content")>>

\* list.sort(key=...): stable, ascending
RECURSIVE InsertSorted(_, _, _)
InsertSorted(tbl, h, s) ==
  IF s = <<>> THEN <<h>>
  ELSE IF KeyLess(SortKey(tbl, h), SortKey(tbl, Head(s)))
       THEN <<h>> \o s
       ELSE <<Head(s)>> \o InsertSorted(tbl, h, Tail(s))

RECURSIVE SortRecords(_, _)
SortRecords(tbl, s) ==
  IF s = <<>> THEN <<>>
  ELSE LET n == Len(s) IN
       InsertSorted(tbl, s[n], SortRecords(tbl, SubSeq(s, 1, n - 1)))

\* ------------------------------------------------------ object allocation
FreeRecs(tbl) == {h \in RecHandles : ~tbl[h].live}
FreeZones(tbl) == {h \in ZoneHandles : ~tbl[h].live}

\* the n smallest handles of S, ascending
RECURSIVE Smallest(_, _)
Smallest(S, n) ==
  IF n = 0 THEN <<>>
  ELSE LET m == CHOOSE x \in S : \A y \in S : x <= y
       IN <<m>> \o Smallest(S \ {m}, n - 1)

IndexIn(hs, h) == CHOOSE i \in 1..Len(hs) : hs[i] = h
Occurs(hs, h) == \E i \in 1..Len(hs) : hs[i] = h

\* Record(zone, data)
NewRecord(z, blob) ==
  [live |-> TRUE, zone |-> z, data |-> blob, updates |-> EmptyDict]

\* Zone(user, data)
NewZone(origin, blob) ==
  [live |-> TRUE, origin |-> origin, data |-> blob, records |-> NotCached]

\* by_name.setdefault(record.name, []).append(record) over the iteration
RECURSIVE HandlesNamed(_, _, _, _)
HandlesNamed(tbl, hs, name, i) ==
  IF i > Len(hs) THEN <<>>
  ELSE IF RecordGetAttr(tbl[hs[i]], "name") = name
       THEN <<hs[i]>> \o HandlesNamed(tbl, hs, name, i + 1)
       ELSE HandlesNamed(tbl, hs, name, i + 1)

\* Zone.records body: group the iterated Records by name, sort each list
BuildIndex(tbl, hs) ==
  LET names == {RecordGetAttr(tbl[hs[i]], "name") : i \in 1..Len(hs)}
  IN [n \in names |-> SortRecords(tbl, HandlesNamed(tbl, hs, n, 1))]

\* faulty variant: the `records` slot is left as it is
ClearRecordsKept(zo) == zo

\* clear_property_cache(zone, 'records')
ClearRecords(zo) == [zo EXCEPT !.records = NotCached]

\* ------------------------------------------------------------ the provider
\* index of the blob with this id in a listing, 0 when absent
PosOf(listing, id) ==
  IF \E i \in 1..Len(listing) : listing[i]["id"] = id
  THEN CHOOSE i \in 1..Len(listing) : listing[i]["id"] = id
  ELSE 0

PosOfName(listing, name) ==
  IF \E i \in 1..Len(listing) : listing[i]["name"] = name
  THEN CHOOSE i \in 1..Len(listing) : listing[i]["name"] = name
  ELSE 0

RemoveAt(s, i) == SubSeq(s, 1, i - 1) \o SubSeq(s, i + 1, Len(s))

\* ------------------------------------------------------------------- Init
InitialRecord ==
  [id |-> 1, name |-> "a", type |-> "A", content |-> "2.2.2.2",
   ttl |-> 1, proxied |-> FALSE]

InitialZone == [id |-> 1, name |-> "x.com"]

InitialSettings ==
  << [id |-> "ipv6", value |-> "off", editable |-> TRUE],
     [id |-> "plan", value |-> "off", editable |-> FALSE],
     [id |-> "ssl", value |-> "off", editable |-> TRUE] >>

\* the profile the host endpoint returns from user_create and user_lookup
ProfileBlob == [user_key |-> "k"]

Constructors == {"User", "User.get", "User.get_or_create"}

\* faulty variant: the response is not put into the cache slot
SeedProfileDropped(data) == NotCached

\* create_from_host_api_response: set_property_cache(user, '_host_api_data',
\* data)
SeedProfile(data) == Cached(data)

\* a User built the given way, holding one Zone it got from get_zone_by_name
Constructed(how) ==
  /\ madeBy = how
  /\ remoteZones = <<InitialZone>>
  /\ nextZoneId = 2
  /\ remoteRecords = [i \in ZoneIds |-> IF i = 1 THEN <<InitialRecord>> ELSE <<>>]
  /\ nextRecId = 2
  /\ remoteSettings = InitialSettings
  /\ hostApiData = IF how = "User" THEN NotCached ELSE SeedProfile(ProfileBlob)
  /\ zonesCache = NotCached
  /\ zone = [h \in ZoneHandles |->
               IF h = 1 THEN NewZone("get_zone_by_name", InitialZone) ELSE NoZone]
  /\ settings = NoSettings
  /\ rec = [h \in RecHandles |-> NoRec]
  /\ lastOp = BaseOp("init")
  /\ calls = <<>>

\* a User built by User(email, api_key)
Init == Constructed("User")

\* a User built by any of its constructors
InitAccount == \E how \in Constructors : Constructed(how)

\* -------------------------------------------------------------------- Zone
\* the rename a Record.save just committed on a Record of Zone z, if any
RenameBefore(z) ==
  lastOp.op = "Record.save" /\ lastOp.ok /\ lastOp.arg = "name" /\ lastOp.zone = z

\* Zone.iter_records, drained by the caller: a Record per item of the
\* listing; the `records` slot is neither read nor written
IterRecords(z) ==
  \E size \in PageSizes, ok \in BOOLEAN :
    LET listing == remoteRecords[ZoneGetAttr(zone[z], "id")]
        items == Drain(listing, 1, size)
        hs == Smallest(FreeRecs(rec), Len(items))
    IN /\ zone[z].live
       /\ IF ok
          THEN /\ Cardinality(FreeRecs(rec)) >= Len(items)
               /\ rec' = [h \in RecHandles |->
                            IF Occurs(hs, h) THEN NewRecord(z, items[IndexIn(hs, h)])
                            ELSE rec[h]]
               /\ calls' = PageRequests("get_dns_records", PagesFetched(listing, size))
               /\ lastOp' = [Returned("Zone.iter_records", z, 0) EXCEPT !.result = hs]
          ELSE /\ calls' = PageRequests("get_dns_records", 1)
               /\ lastOp' = Raised("Zone.iter_records", "ProviderError", z, 0)
               /\ UNCHANGED rec
       /\ UNCHANGED <<provider, madeBy, hostApiData, zonesCache, zone, settings>>

\* faulty variant: the slot is never found filled
IndexCachedNever(zo) == FALSE

\* @cached_property on Zone.records: the slot of this Zone is filled
IndexCached(zo) == zo.records.cached

\* Zone.records (cached_property over iter_records)
ZoneRecords(z) ==
  LET done == IF RenameBefore(z)
              THEN [Returned("Zone.records", z, 0) EXCEPT
                      !.id = lastOp.id, !.arg = "name",
                      !.old = lastOp.old, !.new = lastOp.new]
              ELSE Returned("Zone.records", z, 0)
  IN
  /\ zone[z].live
  /\ IF IndexCached(zone[z])
     THEN /\ calls' = <<>>
          /\ lastOp' = done
          /\ UNCHANGED <<zone, rec>>
     ELSE \E size \in PageSizes, ok \in BOOLEAN :
          LET listing == remoteRecords[ZoneGetAttr(zone[z], "id")]
              items == Drain(listing, 1, size)
              hs == Smallest(FreeRecs(rec), Len(items))
              tbl == [h \in RecHandles |->
                        IF Occurs(hs, h) THEN NewRecord(z, items[IndexIn(hs, h)])
                        ELSE rec[h]]
          IN IF ok
             THEN /\ Cardinality(FreeRecs(rec)) >= Len(items)
                  /\ rec' = tbl
                  /\ zone' = [zone EXCEPT ![z].records = Cached(BuildIndex(tbl, hs))]
                  /\ calls' = PageRequests("get_dns_records", PagesFetched(listing, size))
                  /\ lastOp' = done
             ELSE /\ calls' = PageRequests("get_dns_records", 1)
                  /\ lastOp' = Raised("Zone.records", "ProviderError", z, 0)
                  /\ UNCHANGED <<zone, rec>>
  /\ UNCHANGED <<provider, madeBy, hostApiData, zonesCache, settings>>

\* faulty variant: priority is sent for every type
CreatePayloadAlways(name, type, content, ttl, proxied, priority) ==
  [name |-> name, type |-> type, content |-> content,
   ttl |-> ttl, proxied |-> proxied, priority |-> priority]

\* the field map Zone.create_record builds
CreatePayload(name, type, content, ttl, proxied, priority) ==
  LET data == [name |-> name, type |-> type, content |-> content,
               ttl |-> ttl, proxied |-> proxied]
  IN IF type = "MX" THEN DictSet(data, "priority", priority) ELSE data

\* Zone.create_record
CreateRecord(z, type, ttl, proxied, priority) ==
  \E name \in Names, content \in Contents, ok \in BOOLEAN :
    LET data == CreatePayload(name, type, content, ttl, proxied, priority)
        passed == [type |-> type, priority |-> priority]
        zid == ZoneGetAttr(zone[z], "id")
        blob == DictSet(data, "id", nextRecId)
        h == CHOOSE x \in FreeRecs(rec) : \A y \in FreeRecs(rec) : x <= y
    IN /\ zone[z].live
       /\ nextRecId <= MaxRecId
       /\ FreeRecs(rec) # {}
       /\ calls' = <<Req("create_dns_record", data)>>
       /\ IF ok /\ PosOf(remoteZones, zid) # 0
          THEN /\ remoteRecords' = [remoteRecords EXCEPT ![zid] = Append(@, blob)]
               /\ nextRecId' = nextRecId + 1
               /\ zone' = [zone EXCEPT ![z] = ClearRecords(@)]
               /\ rec' = [rec EXCEPT ![h] = NewRecord(z, blob)]
               /\ lastOp' = [Returned("Zone.create_record", z, h) EXCEPT
                               !.id = nextRecId, !.new = name, !.args = passed]
          ELSE /\ lastOp' = [Raised("Zone.create_record", "ProviderError", z, 0)
                               EXCEPT !.args = passed]
               /\ UNCHANGED <<remoteRecords, nextRecId, zone, rec>>
       /\ UNCHANGED <<remoteZones, nextZoneId, remoteSettings, madeBy, hostApiData,
                      zonesCache, settings>>

\* ------------------------------------------------------------------ Record
\* faulty variant: every name is accepted
KnownFieldAny(r, name) == TRUE

\* Record.__setattr__: "if name in self._data"
KnownField(r, name) == name \in DOMAIN r.data

\* Record.__setattr__, for the names of record fields (the instance's own
\* attributes zone, service, _data and _updates are not written by a caller)
RecordSetAttr(o) ==
  \E name \in WriteFields : \E value \in WriteValues[name] :
    /\ rec[o].live
    /\ calls' = <<>>
    /\ IF KnownField(rec[o], name)
       THEN /\ rec' = [rec EXCEPT ![o].updates = DictSet(@, name, value)]
            /\ lastOp' = [Returned("Record.__setattr__", rec[o].zone, o) EXCEPT
                            !.arg = name, !.new = value]
       ELSE /\ lastOp' = [Raised("Record.__setattr__", "AttributeError", rec[o].zone, o)
                            EXCEPT !.arg = name]
            /\ UNCHANGED rec
    /\ UNCHANGED <<provider, madeBy, hostApiData, zonesCache, zone, settings>>

\* a caller reading a field of a Record: Record.__getattr__
RecordRead(o) ==
  \E name \in ReadFields :
    LET got == RecordGetAttr(rec[o], name) IN
    /\ rec[o].live
    /\ calls' = <<>>
    /\ lastOp' = IF got = "AttributeError"
                 THEN [Raised("Record.__getattr__", "AttributeError", rec[o].zone, o)
                         EXCEPT !.arg = name]
                 ELSE [Returned("Record.__getattr__", rec[o].zone, o)
                         EXCEPT !.arg = name, !.result = got]
    /\ UNCHANGED <<provider, madeBy, hostApiData, zonesCache, zone, settings, rec>>

\* faulty variant: the test looks at the wrong field
RenamesOnContent(updates) == "content" \in DOMAIN updates

\* Record.save: "if 'name' in self._updates"
Renames(updates) == "name" \in DOMAIN updates

\* the response of update_dns_record: the stored record, whole or cut to
\* its id and the submitted fields
Response(stored, updates, whole) ==
  IF whole THEN stored
  ELSE [k \in {"id"} \cup DOMAIN updates |-> stored[k]]

\* faulty variant: the response replaces the snapshot
MergeResponseReplacing(data, result) == result

\* Record.save: self._data.update(result)
MergeResponse(data, result) == DictUpdate(data, result)

\* faulty variant: the pending edits are dropped even when the update raised
AfterSaveClearing(r, result, ok) ==
  IF ok
  THEN [r EXCEPT !.data = MergeResponse(@, result), !.updates = EmptyDict]
  ELSE [r EXCEPT !.updates = EmptyDict]

\* Record.save, the Record after update_dns_record: the merge and
\* self._updates = {} when it returned; when it raised, the exception leaves
\* save before either
AfterSave(r, result, ok) ==
  IF ok
  THEN [r EXCEPT !.data = MergeResponse(@, result), !.updates = EmptyDict]
  ELSE r

\* Record.save
RecordSave(o) ==
  \E ok \in BOOLEAN, whole \in BOOLEAN :
    LET r == rec[o]
        zid == ZoneGetAttr(zone[r.zone], "id")
        id == RecordGetAttr(r, "id")
        pos == PosOf(remoteRecords[zid], id)
        stored == DictUpdate(remoteRecords[zid][pos], r.updates)
        result == Response(stored, r.updates, whole)
    IN /\ r.live
       /\ IF r.updates = EmptyDict
          THEN /\ calls' = <<>>
               /\ lastOp' = Returned("Record.save", r.zone, o)
               /\ UNCHANGED <<remoteRecords, zone, rec>>
          ELSE /\ calls' = <<Req("update_dns_record",
                                 [zone |-> zid, id |-> id, data |-> r.updates])>>
               /\ IF ok /\ pos # 0
                  THEN /\ remoteRecords' = [remoteRecords EXCEPT ![zid][pos] = stored]
                       /\ rec' = [rec EXCEPT ![o] = AfterSave(r, result, TRUE)]
                       /\ zone' = IF Renames(r.updates)
                                  THEN [zone EXCEPT ![r.zone] = ClearRecords(@)]
                                  ELSE zone
                       /\ lastOp' = IF "name" \in DOMAIN r.updates
                                    THEN [Returned("Record.save", r.zone, o) EXCEPT
                                            !.id = id, !.arg = "name",
                                            !.old = r.data["name"],
                                            !.new = result["name"],
                                            !.result = result]
                                    ELSE [Returned("Record.save", r.zone, o) EXCEPT
                                            !.id = id, !.result = result]
                  ELSE /\ rec' = [rec EXCEPT ![o] = AfterSave(r, EmptyDict, FALSE)]
                       /\ lastOp' = Raised("Record.save", "ProviderError", r.zone, o)
                       /\ UNCHANGED <<remoteRecords, zone>>
       /\ UNCHANGED <<remoteZones, nextZoneId, nextRecId, remoteSettings,
                      madeBy, hostApiData, zonesCache, settings>>

\* Record.delete, the owning Zone after delete_dns_record: the slot is
\* cleared when it returned; when it raised, the exception leaves delete
\* before clear_property_cache
RecordsAfterDelete(zo, ok) == IF ok THEN ClearRecords(zo) ELSE zo

\* Record.delete
RecordDelete(o) ==
  \E ok \in BOOLEAN :
    LET r == rec[o]
        zid == ZoneGetAttr(zone[r.zone], "id")
        id == RecordGetAttr(r, "id")
        pos == PosOf(remoteRecords[zid], id)
    IN /\ r.live
       /\ calls' = <<Req("delete_dns_record", [id |-> id])>>
       /\ IF ok /\ pos # 0
          THEN /\ remoteRecords' = [remoteRecords EXCEPT ![zid] = RemoveAt(@, pos)]
               /\ zone' = [zone EXCEPT ![r.zone] = RecordsAfterDelete(@, TRUE)]
               /\ lastOp' = [Returned("Record.delete", r.zone, o) EXCEPT !.id = id]
          ELSE /\ zone' = [zone EXCEPT ![r.zone] = RecordsAfterDelete(@, FALSE)]
               /\ lastOp' = Raised("Record.delete", "ProviderError", r.zone, o)
               /\ UNCHANGED remoteRecords
       /\ UNCHANGED <<remoteZones, nextZoneId, nextRecId, remoteSettings,
                      madeBy, hostApiData, zonesCache, settings, rec>>

\* a Record some Zone's cached index still refers to
InIndex(o) ==
  \E z \in ZoneHandles : \E n \in DOMAIN zone[z].records.value :
    Occurs(zone[z].records.value[n], o)

\* the caller drops its last reference to a Record that no index holds
ReleaseRecord(o) ==
  /\ rec[o].live
  /\ ~InIndex(o)
  /\ rec' = [rec EXCEPT ![o] = NoRec]
  /\ UNCHANGED <<provider, madeBy, hostApiData, zonesCache, zone, settings, lastOp, calls>>

\* ----------------------------------------------------------- specification
\* a caller working on the records of one zone, creating A records with the
\* default ttl, proxied and priority
Next ==
  \/ \E z \in ZoneHandles : ZoneRecords(z)
  \/ \E z \in ZoneHandles : IterRecords(z)
  \/ \E z \in ZoneHandles :
       CreateRecord(z, "A", DefaultTtl, DefaultProxied, DefaultPriority)
  \/ \E o \in RecHandles : RecordSetAttr(o)
  \/ \E o \in RecHandles : RecordSave(o)
  \/ \E o \in RecHandles : RecordDelete(o)
  \/ \E o \in RecHandles : ReleaseRecord(o)

Spec == Init /\ [][Next]_vars

\* a caller creating records of every type with explicit arguments
NextCreate ==
  \/ \E z \in ZoneHandles : ZoneRecords(z)
  \/ \E z \in ZoneHandles : \E type \in Types, ttl \in Ttls,
        proxied \in Proxieds, priority \in Priorities :
       CreateRecord(z, type, ttl, proxied, priority)
  \/ \E o \in RecHandles : RecordDelete(o)
  \/ \E o \in RecHandles : ReleaseRecord(o)

SpecCreate == Init /\ [][NextCreate]_vars

\* a caller reading, writing and saving the fields of the Records it iterates
NextFields ==
  \/ \E z \in ZoneHandles : IterRecords(z)
  \/ \E o \in RecHandles : RecordRead(o)
  \/ \E o \in RecHandles : RecordSetAttr(o)
  \/ \E o \in RecHandles : RecordSave(o)
  \/ \E o \in RecHandles : ReleaseRecord(o)

SpecFields == Init /\ [][NextFields]_vars

\* -------------------------------------------------------------------- User
\* the Zone.delete that just succeeded, if any
DeleteBefore == lastOp.op = "Zone.delete" /\ lastOp.ok

\* User.zones (cached_property over iter_zones)
UserZones ==
  LET done == IF DeleteBefore
              THEN [BaseOp("User.zones") EXCEPT
                      !.id = lastOp.id, !.arg = "deleted", !.old = lastOp.old]
              ELSE BaseOp("User.zones")
  IN
  /\ IF zonesCache.cached
     THEN /\ calls' = <<>>
          /\ lastOp' = done
          /\ UNCHANGED <<zone, zonesCache>>
     ELSE \E size \in PageSizes, ok \in BOOLEAN :
          LET items == Drain(remoteZones, 1, size)
              hs == Smallest(FreeZones(zone), Len(items))
          IN IF ok
             THEN /\ Cardinality(FreeZones(zone)) >= Len(items)
                  /\ zone' = [h \in ZoneHandles |->
                                IF Occurs(hs, h)
                                THEN NewZone("zones", items[IndexIn(hs, h)])
                                ELSE zone[h]]
                  /\ zonesCache' = Cached(hs)
                  /\ calls' = PageRequests("get_zones", PagesFetched(remoteZones, size))
                  /\ lastOp' = done
             ELSE /\ calls' = PageRequests("get_zones", 1)
                  /\ lastOp' = Raised("User.zones", "ProviderError", 0, 0)
                  /\ UNCHANGED <<zone, zonesCache>>
  /\ UNCHANGED <<provider, madeBy, hostApiData, settings, rec>>

\* User.get_zone_by_name
GetZoneByName(name) ==
  \E ok \in BOOLEAN :
    LET pos == PosOfName(remoteZones, name)
        h == CHOOSE x \in FreeZones(zone) : \A y \in FreeZones(zone) : x <= y
    IN /\ FreeZones(zone) # {}
       /\ calls' = <<Req("get_zone_by_name", [name |-> name])>>
       /\ IF ok /\ pos # 0
          THEN /\ zone' = [zone EXCEPT ![h] = NewZone("get_zone_by_name", remoteZones[pos])]
               /\ lastOp' = [Returned("User.get_zone_by_name", h, 0) EXCEPT
                               !.id = remoteZones[pos]["id"]]
          ELSE /\ lastOp' = Raised("User.get_zone_by_name",
                                   IF pos = 0 THEN "NotFound" ELSE "ProviderError", 0, 0)
               /\ UNCHANGED zone
       /\ UNCHANGED <<provider, madeBy, hostApiData, zonesCache, settings, rec>>

\* User.create_zone
CreateZone(name) ==
  \E ok \in BOOLEAN :
    LET blob == [id |-> nextZoneId, name |-> name]
        h == CHOOSE x \in FreeZones(zone) : \A y \in FreeZones(zone) : x <= y
    IN /\ FreeZones(zone) # {}
       /\ nextZoneId <= MaxZoneId
       /\ calls' = <<Req("create_zone", [name |-> name])>>
       /\ IF ok /\ PosOfName(remoteZones, name) = 0
          THEN /\ remoteZones' = Append(remoteZones, blob)
               /\ nextZoneId' = nextZoneId + 1
               /\ zone' = [zone EXCEPT ![h] = NewZone("create_zone", blob)]
               /\ lastOp' = [Returned("User.create_zone", h, 0) EXCEPT !.id = nextZoneId]
          ELSE /\ lastOp' = Raised("User.create_zone", "ProviderError", 0, 0)
               /\ UNCHANGED <<remoteZones, nextZoneId, zone>>
       /\ UNCHANGED <<remoteRecords, nextRecId, remoteSettings, madeBy, hostApiData,
                      zonesCache, settings, rec>>

\* faulty variant: the `zones` slot is left as it is
ClearZonesKept(cache) == cache

\* clear_property_cache(self.user, 'zones')
ClearZones(cache) == NotCached

\* faulty variant: the slot is cleared before delete_zone is called
ZonesAfterDeleteCleared(cache, ok) == ClearZones(cache)

\* Zone.delete, the `zones` slot after delete_zone: cleared when it returned;
\* when it raised, the exception leaves delete before clear_property_cache
ZonesAfterDelete(cache, ok) == IF ok THEN ClearZones(cache) ELSE cache

\* Zone.delete
ZoneDelete(z) ==
  \E ok \in BOOLEAN :
    LET id == ZoneGetAttr(zone[z], "id")
        pos == PosOf(remoteZones, id)
    IN /\ zone[z].live
       /\ calls' = <<Req("delete_zone", [id |-> id])>>
       /\ IF ok /\ pos # 0
          THEN /\ remoteZones' = RemoveAt(remoteZones, pos)
               /\ remoteRecords' = [remoteRecords EXCEPT ![id] = <<>>]
               /\ zonesCache' = ZonesAfterDelete(zonesCache, TRUE)
               /\ lastOp' = [Returned("Zone.delete", z, 0) EXCEPT
                               !.id = id, !.old = zone[z].origin]
          ELSE /\ zonesCache' = ZonesAfterDelete(zonesCache, FALSE)
               /\ lastOp' = Raised("Zone.delete", "ProviderError", z, 0)
               /\ UNCHANGED <<remoteZones, remoteRecords>>
       /\ UNCHANGED <<nextZoneId, nextRecId, remoteSettings, madeBy, hostApiData, zone,
                      settings, rec>>

\* faulty variant: a deletion that raises is swallowed and the loop goes on
RECURSIVE DeleteEachSwallowing(_, _, _, _)
DeleteEachSwallowing(listing, batch, i, failIds) ==
  IF i > Len(batch)
  THEN [ok |-> TRUE, listing |-> listing, failed |-> {}, calls |-> <<>>]
  ELSE LET id == batch[i]["id"]
           pos == PosOf(listing, id)
           req == Req("delete_dns_record", [id |-> id])
           bad == id \in failIds \/ pos = 0
           r == DeleteEachSwallowing(IF bad THEN listing ELSE RemoveAt(listing, pos),
                                     batch, i + 1, failIds)
       IN [r EXCEPT !.calls = <<req>> \o @,
                    !.failed = IF bad THEN @ \cup {id} ELSE @]

\* for record in ...: record.delete(), over one fetched page; the first
\* deletion that raises ends the loop
RECURSIVE DeleteEach(_, _, _, _)
DeleteEach(listing, batch, i, failIds) ==
  IF i > Len(batch)
  THEN [ok |-> TRUE, listing |-> listing, failed |-> {}, calls |-> <<>>]
  ELSE LET id == batch[i]["id"]
           pos == PosOf(listing, id)
           req == Req("delete_dns_record", [id |-> id])
       IN IF id \in failIds \/ pos = 0
          THEN [ok |-> FALSE, listing |-> listing, failed |-> {id},
                calls |-> <<req>>]
          ELSE LET r == DeleteEach(RemoveAt(listing, pos), batch, i + 1, failIds)
               IN [r EXCEPT !.calls = <<req>> \o @]

\* for record in zone.iter_records(): record.delete() -- the paginator asks
\* for the next page only when the loop has used up the current one, so each
\* page is cut from the listing as the deletions so far have left it
RECURSIVE Purge(_, _, _, _)
Purge(listing, page, size, failIds) ==
  LET batch == PageOf(listing, page, size)
      total == TotalPages(listing, size)
      fetch == Req("get_dns_records", [page |-> page])
      d == DeleteEach(listing, batch, 1, failIds)
  IN IF ~d.ok \/ page >= total
     THEN [d EXCEPT !.calls = <<fetch>> \o @]
     ELSE LET r == Purge(d.listing, page + 1, size, failIds)
          IN [r EXCEPT !.calls = <<fetch>> \o d.calls \o @,
                       !.failed = d.failed \cup @]

\* the records the host endpoint seeds into a zone it provisions
Seeded(n) ==
  [k \in 1..n |->
     [id |-> nextRecId + k - 1, name |-> "a", type |-> "A",
      content |-> "1.1.1.1", ttl |-> 1, proxied |-> FALSE]]

\* User.create_host_zone
CreateHostZone(name) ==
  \E n \in 0..MaxSeed, size \in PageSizes, okLookup \in BOOLEAN, okSet \in BOOLEAN :
  \* the loop ends at the first deletion that raises: at most one failing id
  \E failIds \in {{}} \cup {{nextRecId + k - 1} : k \in 1..n} :
    LET zid == nextZoneId
        blob == [id |-> zid, name |-> name]
        lookup == IF hostApiData.cached THEN <<>>
                  ELSE <<Req("user_lookup", EmptyDict)>>
        set == <<Req("full_zone_set", [name |-> name])>>
        get == <<Req("get_zone_by_name", [name |-> name])>>
        p == Purge(Seeded(n), 1, size, failIds)
        h == CHOOSE x \in FreeZones(zone) : \A y \in FreeZones(zone) : x <= y
    IN /\ FreeZones(zone) # {}
       /\ nextZoneId <= MaxZoneId
       /\ IF ~hostApiData.cached /\ ~okLookup
          THEN /\ calls' = lookup
               /\ lastOp' = Raised("User.create_host_zone", "ProviderError", 0, 0)
               /\ UNCHANGED <<provider, hostApiData, zone>>
          ELSE /\ hostApiData' = Cached(ProfileBlob)
               /\ IF ~okSet \/ PosOfName(remoteZones, name) # 0
                  THEN /\ calls' = lookup \o set
                       /\ lastOp' = Raised("User.create_host_zone", "ProviderError", 0, 0)
                       /\ UNCHANGED <<provider, zone>>
                  ELSE /\ remoteZones' = Append(remoteZones, blob)
                       /\ nextZoneId' = nextZoneId + 1
                       /\ nextRecId' = nextRecId + n
                       /\ remoteRecords' = [remoteRecords EXCEPT ![zid] = p.listing]
                       /\ calls' = lookup \o set \o get \o p.calls
                       /\ UNCHANGED remoteSettings
                       /\ IF p.ok
                          THEN /\ zone' = [zone EXCEPT ![h] = NewZone("create_host_zone", blob)]
                               /\ lastOp' = [Returned("User.create_host_zone", h, 0) EXCEPT
                                               !.id = zid, !.failed = p.failed,
                                               !.args = [seeded |-> n, size |-> size]]
                          ELSE /\ zone' = zone
                               /\ lastOp' = [Raised("User.create_host_zone", "ProviderError", 0, 0)
                                               EXCEPT !.id = zid, !.failed = p.failed,
                                                      !.args = [seeded |-> n, size |-> size]]
       /\ UNCHANGED <<madeBy, zonesCache, settings, rec>>

\* User.user_key: self._host_api_data['user_key'], a cached_property over
\* user_lookup
UserKey ==
  \E ok \in BOOLEAN :
    /\ IF hostApiData.cached
       THEN /\ calls' = <<>>
            /\ lastOp' = [BaseOp("User.user_key") EXCEPT
                            !.result = hostApiData.value["user_key"]]
            /\ UNCHANGED hostApiData
       ELSE /\ calls' = <<Req("user_lookup", EmptyDict)>>
            /\ IF ok
               THEN /\ hostApiData' = Cached(ProfileBlob)
                    /\ lastOp' = [BaseOp("User.user_key") EXCEPT
                                    !.result = ProfileBlob["user_key"]]
               ELSE /\ lastOp' = Raised("User.user_key", "ProviderError", 0, 0)
                    /\ UNCHANGED hostApiData
    /\ UNCHANGED <<provider, madeBy, zonesCache, zone, settings, rec>>

\* the caller drops its last reference to a Zone that neither the cached
\* zone list nor a Record refers to
ReleaseZone(z) ==
  /\ zone[z].live
  /\ ~(zonesCache.cached /\ Occurs(zonesCache.value, z))
  /\ \A o \in RecHandles : ~(rec[o].live /\ rec[o].zone = z)
  /\ ~settings.built
  /\ zone' = [zone EXCEPT ![z] = NoZone]
  /\ UNCHANGED <<provider, madeBy, hostApiData, zonesCache, settings, rec, lastOp, calls>>

\* a caller working on the zones of the account
NextAccount ==
  \/ UserZones
  \/ UserKey
  \/ \E name \in ZoneNames : GetZoneByName(name)
  \/ \E name \in ZoneNames : CreateZone(name)
  \/ \E z \in ZoneHandles : ZoneDelete(z)
  \/ \E name \in ZoneNames : CreateHostZone(name)
  \/ \E z \in ZoneHandles : ReleaseZone(z)

SpecAccount == InitAccount /\ [][NextAccount]_vars

\* a caller listing and deleting zones and records
NextDelete ==
  \/ UserZones
  \/ \E z \in ZoneHandles : ZoneRecords(z)
  \/ \E z \in ZoneHandles : ZoneDelete(z)
  \/ \E o \in RecHandles : RecordDelete(o)
  \/ \E o \in RecHandles : ReleaseRecord(o)
  \/ \E z \in ZoneHandles : ReleaseZone(z)

SpecDelete == Init /\ [][NextDelete]_vars

\* ------------------------------------------------------------ ZoneSettings
\* ZoneSettings._get_settings over the first n items the paginator yields:
\* self._settings = {}, then self._settings[setting['id']] = setting
RECURSIVE GetSettings(_, _)
GetSettings(items, n) ==
  IF n = 0 THEN EmptyDict
  ELSE DictSet(GetSettings(items, n - 1), items[n]["id"], items[n])

\* faulty variant: the snapshot is looked at before the pending edits
SettingsGetAttrSnapshotFirst(zs, name) ==
  IF name \in DOMAIN zs.settings THEN zs.settings[name]["value"]
  ELSE IF name \in DOMAIN zs.updates THEN zs.updates[name]
  ELSE "AttributeError"

\* ZoneSettings.__getattr__
SettingsGetAttr(zs, name) ==
  IF name \in DOMAIN zs.updates THEN zs.updates[name]
  ELSE IF name \in DOMAIN zs.settings THEN zs.settings[name]["value"]
  ELSE "AttributeError"

\* Zone.settings, first access: ZoneSettings(zone)
ZoneSettingsNew(z) ==
  \E size \in PageSizes, ok \in BOOLEAN :
    LET items == Drain(remoteSettings, 1, size) IN
    /\ zone[z].live
    /\ ~settings.built
    /\ IF ok
       THEN /\ settings' = [built |-> TRUE,
                            settings |-> GetSettings(items, Len(items)),
                            updates |-> EmptyDict]
            /\ calls' = PageRequests("get_zone_settings", PagesFetched(remoteSettings, size))
            /\ lastOp' = Returned("Zone.settings", z, 0)
       ELSE /\ calls' = PageRequests("get_zone_settings", 1)
            /\ lastOp' = Raised("Zone.settings", "ProviderError", z, 0)
            /\ UNCHANGED settings
    /\ UNCHANGED <<provider, madeBy, hostApiData, zonesCache, zone, rec>>

\* sorted(names): ascending in the order of Python's strings
RECURSIVE SortedNames(_)
SortedNames(S) ==
  IF S = {} THEN <<>>
  ELSE LET least == CHOOSE x \in S : \A y \in S : Rank(x) <= Rank(y)
       IN <<least>> \o SortedNames(S \ {least})

\* ZoneSettings.__iter__, drained by the caller: sorted(self._settings)
SettingsIter(zs) == SortedNames(DOMAIN zs.settings)

\* a caller reading a setting: ZoneSettings.__getattr__
SettingsRead ==
  \E name \in SettingNames :
    LET got == SettingsGetAttr(settings, name) IN
    /\ settings.built
    /\ calls' = <<>>
    /\ lastOp' = IF got = "AttributeError"
                 THEN [Raised("ZoneSettings.__getattr__", "AttributeError", 0, 0)
                         EXCEPT !.arg = name]
                 ELSE [BaseOp("ZoneSettings.__getattr__")
                         EXCEPT !.arg = name, !.result = got]
    /\ UNCHANGED <<provider, madeBy, hostApiData, zonesCache, zone, settings, rec>>

\* a caller iterating the settings: list(zone.settings)
SettingsIterate ==
  /\ settings.built
  /\ calls' = <<>>
  /\ lastOp' = [BaseOp("ZoneSettings.__iter__") EXCEPT !.result = SettingsIter(settings)]
  /\ UNCHANGED <<provider, madeBy, hostApiData, zonesCache, zone, settings, rec>>

\* faulty variant: the editable flag is not looked at
NotEditableNever(zs, name) == FALSE

\* ZoneSettings.__setattr__: "if not self._settings[name]['editable']"
NotEditable(zs, name) == ~zs.settings[name]["editable"]

\* ZoneSettings.__setattr__, for the names of settings (the instance's own
\* attributes zone, service, _settings and _updates are not written by a
\* caller)
SettingsSetAttr ==
  \E name \in SettingNames, value \in SettingValues :
    /\ settings.built
    /\ calls' = <<>>
    /\ IF name \notin DOMAIN settings.settings
       THEN /\ lastOp' = [Raised("ZoneSettings.__setattr__", "AttributeError", 0, 0)
                            EXCEPT !.arg = name]
            /\ UNCHANGED settings
       ELSE IF NotEditable(settings, name)
       THEN /\ lastOp' = [Raised("ZoneSettings.__setattr__", "ValueError", 0, 0)
                            EXCEPT !.arg = name]
            /\ UNCHANGED settings
       ELSE /\ settings' = [settings EXCEPT !.updates = DictSet(@, name, value)]
            /\ lastOp' = [BaseOp("ZoneSettings.__setattr__") EXCEPT !.arg = name]
    /\ UNCHANGED <<provider, madeBy, hostApiData, zonesCache, zone, rec>>

\* faulty variant: save never returns early
NothingToSaveNever(zs) == FALSE

\* ZoneSettings.save: "if not self._updates: return"
NothingToSave(zs) == zs.updates = EmptyDict

\* faulty variant: only the edit with the first setting id is submitted
SettingItemsFirst(updates) ==
  IF updates = EmptyDict THEN {}
  ELSE LET first == CHOOSE k \in DOMAIN updates :
                      \A j \in DOMAIN updates : Rank(k) <= Rank(j)
       IN {[id |-> first, value |-> updates[first]]}

\* ZoneSettings.save: items = [{'id': name, 'value': value} for name, value
\* in iteritems(self._updates)]; the order of a dict's items is not modelled
SettingItems(updates) ==
  {[id |-> name, value |-> updates[name]] : name \in DOMAIN updates}

\* the provider applying set_zone_settings(zone_id, items)
ApplySettings(listing, items) ==
  [i \in 1..Len(listing) |->
     IF \E it \in items : it.id = listing[i]["id"]
     THEN [listing[i] EXCEPT !["value"] =
             (CHOOSE it \in items : it.id = listing[i]["id"]).value]
     ELSE listing[i]]

\* ZoneSettings.save; the re-fetch raises after `got` items when got is less
\* than the listing's length
SettingsSave ==
  \E size \in PageSizes, okSet \in BOOLEAN, got \in 0..Len(remoteSettings) :
    LET sent == SettingItems(settings.updates)
        after == ApplySettings(remoteSettings, sent)
        items == Drain(after, 1, size)
        fetched == got = Len(items)
        \* a failure strikes at a page request: whole pages were yielded
        pages == IF fetched THEN PagesFetched(after, size) ELSE got \div size + 1
    IN /\ settings.built
       /\ (fetched \/ got % size = 0)
       /\ IF NothingToSave(settings)
          THEN /\ calls' = <<>>
               /\ lastOp' = [BaseOp("ZoneSettings.save") EXCEPT !.arg = "nothing"]
               /\ UNCHANGED <<remoteSettings, settings>>
          ELSE IF ~okSet
          THEN /\ calls' = <<Req("set_zone_settings", sent)>>
               /\ lastOp' = Raised("ZoneSettings.save", "ProviderError", 0, 0)
               /\ UNCHANGED <<remoteSettings, settings>>
          ELSE /\ remoteSettings' = after
               /\ calls' = <<Req("set_zone_settings", sent)>>
                             \o PageRequests("get_zone_settings", pages)
               /\ IF fetched
                  THEN /\ settings' = [settings EXCEPT
                                         !.settings = GetSettings(items, got),
                                         !.updates = EmptyDict]
                       /\ lastOp' = BaseOp("ZoneSettings.save")
                  ELSE /\ settings' = [settings EXCEPT
                                         !.settings = GetSettings(items, got)]
                       /\ lastOp' = [Raised("ZoneSettings.save", "ProviderError", 0, 0)
                                       EXCEPT !.arg = "refetch"]
       /\ UNCHANGED <<remoteZones, nextZoneId, remoteRecords, nextRecId,
                      madeBy, hostApiData, zonesCache, zone, rec>>

\* a caller working on the settings of one zone
NextSettings ==
  \/ \E z \in ZoneHandles : ZoneSettingsNew(z)
  \/ SettingsRead
  \/ SettingsIterate
  \/ SettingsSetAttr
  \/ SettingsSave

SpecSettings == Init /\ [][NextSettings]_vars

\* ------------------------------------------------------------------ claims
\* records of the index list m[n] that wrap the remote record id
Holding(m, n, id) ==
  IF n \in DOMAIN m
  THEN {j \in 1..Len(m[n]) : rec[m[n][j]].data["id"] = id}
  ELSE {}

\* C1: the `records` access that directly follows a successful Record.save
\* with a pending `name` edit re-queries the remote listing; the mapping it
\* returns has the record under its new name and, when the name changed, has
\* no entry for it under the old name.
C1_RenamedRecordReindexed ==
  (lastOp.op = "Zone.records" /\ lastOp.ok /\ lastOp.arg = "name") =>
    LET m == zone[lastOp.zone].records.value IN
    /\ calls # <<>>
    /\ \A i \in 1..Len(calls) : calls[i].method = "get_dns_records"
    /\ zone[lastOp.zone].records.cached
    /\ Holding(m, lastOp.new, lastOp.id) # {}
    /\ (lastOp.old # lastOp.new => Holding(m, lastOp.old, lastOp.id) = {})

C1_Witness ==
  /\ lastOp.op = "Zone.records" /\ lastOp.ok /\ lastOp.arg = "name"
  /\ lastOp.old = "a" /\ lastOp.new = "b"
  /\ "a" \in DOMAIN zone[lastOp.zone].records.value

\* the cached index of Zone z lists exactly the remote records of its zone,
\* each once and under its remote name
IndexMatchesRemote(z) ==
  LET m == zone[z].records.value
      listing == remoteRecords[ZoneGetAttr(zone[z], "id")]
  IN /\ \A i \in 1..Len(listing) :
          Cardinality(Holding(m, listing[i]["name"], listing[i]["id"])) = 1
     /\ \A n \in DOMAIN m : \A j \in 1..Len(m[n]) :
          \E i \in 1..Len(listing) :
            /\ listing[i]["id"] = rec[m[n][j]].data["id"]
            /\ listing[i]["name"] = n

\* C3: whatever create_record, Record.save and Record.delete calls were made
\* through a Zone and its Records, the mapping its `records` holds contains
\* exactly the records the remote zone holds, each under its remote name.
C3_IndexHoldsRemoteRecords ==
  \A z \in ZoneHandles :
    (zone[z].live /\ zone[z].records.cached) => IndexMatchesRemote(z)

C3_Witness ==
  /\ zone[1].records.cached
  /\ Len(remoteRecords[1]) = 1
  /\ remoteRecords[1][1]["id"] = 2
  /\ remoteRecords[1][1]["name"] = "b"
  /\ DOMAIN zone[1].records.value = {"b"}

\* C4: every list of a cached index is sorted ascending by (type, content) as
\* read from its Records, at every point of any sequence of operations.
C4_IndexListsSorted ==
  \A z \in ZoneHandles :
    (zone[z].live /\ zone[z].records.cached) =>
      \A n \in DOMAIN zone[z].records.value :
        LET l == zone[z].records.value[n] IN
        \A j \in 1..(Len(l) - 1) :
          ~KeyLess(SortKey(rec, l[j + 1]), SortKey(rec, l[j]))

\* C7: the payload create_record submits has a priority field exactly when
\* the type passed is "MX", whatever priority argument was passed.
C7_PriorityOnlyForMX ==
  lastOp.op = "Zone.create_record" =>
    /\ Len(calls) = 1
    /\ calls[1].method = "create_dns_record"
    /\ calls[1].args["type"] = lastOp.args["type"]
    /\ ("priority" \in DOMAIN calls[1].args) <=> (lastOp.args["type"] = "MX")
    /\ (lastOp.args["type"] = "MX" =>
          calls[1].args["priority"] = lastOp.args["priority"])

C7_Witness ==
  /\ lastOp.op = "Zone.create_record" /\ lastOp.ok
  /\ lastOp.args["type"] = "A" /\ lastOp.args["priority"] = 20
  /\ "priority" \notin DOMAIN calls[1].args

\* C9: a write to a Record attribute absent from the snapshot raises
\* AttributeError and changes no Record; so the keys of every Record's
\* pending edits are keys of its snapshot.
C9_EditsSubsetOfSnapshot ==
  \A o \in RecHandles : (DOMAIN rec[o].updates) \subseteq (DOMAIN rec[o].data)

C9_UnknownWriteStep ==
  \A o \in RecHandles :
    (RecordSetAttr(o) /\ lastOp'.arg \notin DOMAIN rec[o].data)
    => (lastOp'.err = "AttributeError" /\ rec' = rec /\ calls' = <<>>)

C9_UnknownWriteRejected ==
  [](C9_EditsSubsetOfSnapshot) /\ [][C9_UnknownWriteStep]_vars

C9_Witness ==
  /\ lastOp.op = "Record.__setattr__" /\ lastOp.err = "AttributeError"
  /\ lastOp.arg = "comment"
  /\ rec[lastOp.rec].updates # EmptyDict
\* C2: the `zones` access that directly follows a successful Zone.delete, on
\* a Zone of any origin, lists the zones remotely afresh, and the sequence it
\* returns does not contain the deleted zone.
C2_DeletedZoneNotListed ==
  (lastOp.op = "User.zones" /\ lastOp.ok /\ lastOp.arg = "deleted") =>
    /\ calls # <<>>
    /\ \A i \in 1..Len(calls) : calls[i].method = "get_zones"
    /\ zonesCache.cached
    /\ \A i \in 1..Len(zonesCache.value) :
         /\ zone[zonesCache.value[i]].live
         /\ zone[zonesCache.value[i]].data["id"] # lastOp.id
    /\ Len(zonesCache.value) = Len(remoteZones)

C2_Witness ==
  /\ lastOp.op = "User.zones" /\ lastOp.ok /\ lastOp.arg = "deleted"
  /\ lastOp.old = "zones"
  /\ Len(zonesCache.value) = 1

\* C5: when create_host_zone returns a Zone, the remote zone holds no DNS
\* record, for any number of seeded records and any page size.
C5_HostZoneLeftEmpty ==
  (lastOp.op = "User.create_host_zone" /\ lastOp.ok) =>
    remoteRecords[lastOp.id] = <<>>

\* C6: when a record deletion fails in create_host_zone's cleanup loop,
\* create_host_zone raises that error at the failing deletion and returns no
\* Zone; a Zone is never returned while a record whose deletion failed is
\* still there.
C6_FailedPurgeAborts ==
  lastOp.op = "User.create_host_zone" =>
    /\ (lastOp.failed # {} =>
          /\ ~lastOp.ok
          /\ lastOp.err = "ProviderError"
          /\ lastOp.zone = 0
          /\ calls[Len(calls)].method = "delete_dns_record"
          /\ calls[Len(calls)].args["id"] \in lastOp.failed
          /\ \A h \in ZoneHandles :
               zone[h].live => zone[h].data["id"] # lastOp.id)
    /\ (lastOp.ok =>
          \A i \in 1..Len(remoteRecords[lastOp.id]) :
            remoteRecords[lastOp.id][i]["id"] \notin lastOp.failed)

C6_Witness ==
  /\ lastOp.op = "User.create_host_zone"
  /\ lastOp.failed # {}
  /\ ~lastOp.ok
  /\ Len(remoteRecords[lastOp.id]) = 2
  /\ lastOp.args["seeded"] = 3

\* C8: a write to a ZoneSettings attribute that is no setting id of the
\* snapshot raises AttributeError, a write to one whose descriptor is not
\* editable raises ValueError; both leave the snapshot and the pending edits
\* as they were and issue no remote request.
C8_RejectedStep ==
  (SettingsSetAttr /\ settings.built) =>
    /\ (lastOp'.arg \notin DOMAIN settings.settings =>
          lastOp'.err = "AttributeError")
    /\ ((lastOp'.arg \in DOMAIN settings.settings
           /\ ~settings.settings[lastOp'.arg]["editable"]) =>
          lastOp'.err = "ValueError")
    /\ (~lastOp'.ok =>
          /\ settings' = settings
          /\ remoteSettings' = remoteSettings
          /\ calls' = <<>>)

C8_RejectedSettingWrite == [][C8_RejectedStep]_vars

C8_Witness ==
  /\ lastOp.op = "ZoneSettings.__setattr__"
  /\ lastOp.err = "ValueError"
  /\ lastOp.arg = "plan"
  /\ settings.updates # EmptyDict

\* C10: ZoneSettings.save with no pending edit issues no remote request and
\* leaves the snapshot, the pending edits and the provider as they were.
C10_EmptySaveStep ==
  (SettingsSave /\ settings.updates = EmptyDict) =>
    /\ calls' = <<>>
    /\ settings' = settings
    /\ remoteSettings' = remoteSettings
    /\ lastOp'.ok

C10_EmptySaveIsNoOp == [][C10_EmptySaveStep]_vars

C10_Witness ==
  /\ lastOp.op = "ZoneSettings.save" /\ lastOp.ok
  /\ lastOp.arg = "nothing"
  /\ settings.built /\ settings.updates = EmptyDict
  /\ calls = <<>>
  /\ \E i \in 1..Len(remoteSettings) : remoteSettings[i]["value"] = "on"

\* C11: ZoneSettings.save with pending edits issues one set_zone_settings
\* request carrying one {id, value} item per pending edit, followed only by
\* get_zone_settings page requests; when it returns, the pending edits are
\* empty, the snapshot is the provider's listing as it is after the update,
\* and every setting reads as the value of that snapshot.
C11_SaveStep ==
  (SettingsSave /\ settings.updates # EmptyDict /\ lastOp'.ok) =>
    /\ Len(calls') >= 2
    /\ calls'[1].method = "set_zone_settings"
    /\ calls'[1].args = {[id |-> n, value |-> settings.updates[n]] :
                           n \in DOMAIN settings.updates}
    /\ \A i \in 2..Len(calls') : calls'[i].method = "get_zone_settings"
    /\ settings'.updates = EmptyDict
    /\ DOMAIN settings'.settings =
         {remoteSettings'[i]["id"] : i \in 1..Len(remoteSettings')}
    /\ \A i \in 1..Len(remoteSettings') :
         /\ settings'.settings[remoteSettings'[i]["id"]] = remoteSettings'[i]
         /\ SettingsGetAttr(settings', remoteSettings'[i]["id"]) =
              remoteSettings'[i]["value"]

C11_SaveCommitsEdits == [][C11_SaveStep]_vars

C11_Witness ==
  /\ lastOp.op = "ZoneSettings.save" /\ lastOp.ok /\ lastOp.arg = ""
  /\ Len(calls) = 3
  /\ Cardinality(calls[1].args) = 2
  /\ SettingsGetAttr(settings, "ssl") = "on"
  /\ SettingsGetAttr(settings, "ipv6") = "on"
  /\ settings.updates = EmptyDict

\* C12: Record.save with pending edits issues one update_dns_record request
\* for the Record's zone id and record id carrying exactly the pending edits;
\* when it returns, the snapshot is the old snapshot overwritten key by key
\* with the response (keys the response lacks keep their values) and the
\* pending edits are empty.  Record.save without pending edits issues no
\* request and changes neither the Record, the index nor the provider.
C12_SaveStep ==
  \A o \in RecHandles :
    RecordSave(o) =>
      IF rec[o].updates = EmptyDict
      THEN /\ calls' = <<>>
           /\ lastOp'.ok
           /\ rec' = rec /\ zone' = zone /\ remoteRecords' = remoteRecords
      ELSE /\ calls' = <<Req("update_dns_record",
                             [zone |-> zone[rec[o].zone].data["id"],
                              id |-> rec[o].data["id"],
                              data |-> rec[o].updates])>>
           /\ (lastOp'.ok =>
                 /\ rec'[o].updates = EmptyDict
                 /\ DOMAIN rec'[o].data =
                      (DOMAIN rec[o].data) \cup (DOMAIN lastOp'.result)
                 /\ \A k \in DOMAIN rec'[o].data :
                      rec'[o].data[k] = IF k \in DOMAIN lastOp'.result
                                        THEN lastOp'.result[k]
                                        ELSE rec[o].data[k])

C12_SaveMergesResponse == [][C12_SaveStep]_vars

C12_Witness ==
  /\ lastOp.op = "Record.save" /\ lastOp.ok
  /\ calls # <<>>
  /\ DOMAIN lastOp.result = {"id", "content"}
  /\ rec[lastOp.rec].live
  /\ rec[lastOp.rec].data["id"] = lastOp.id
  /\ rec[lastOp.rec].data["name"] = "a"
  /\ rec[lastOp.rec].updates = EmptyDict
  /\ \E i \in 1..Len(remoteRecords[1]) :
       remoteRecords[1][i]["id"] = lastOp.id /\ remoteRecords[1][i]["name"] = "b"

\* a request for the profile among the requests of the last call
LooksUp(reqs) == \E i \in 1..Len(reqs) : reqs[i].method = "user_lookup"

\* C13: a `zones` access that finds the list cached issues no request and
\* returns the cached sequence; a drained list stays cached, with the same
\* Zone objects, over every call but Zone.delete.  A profile that was looked
\* up stays cached and is not looked up again, and a User built by get or
\* get_or_create holds the profile it was seeded with and never looks it up.
C13_SeededNeverLooksUp ==
  madeBy # "User" => (hostApiData = Cached(ProfileBlob) /\ ~LooksUp(calls))

C13_CachedStep ==
  LET releasing == \E z \in ZoneHandles : ReleaseZone(z)
      deleting == \E z \in ZoneHandles : ZoneDelete(z)
  IN
  /\ (UserZones /\ zonesCache.cached) =>
        (calls' = <<>> /\ lastOp'.ok /\ zonesCache' = zonesCache /\ zone' = zone)
  /\ (UserZones /\ lastOp'.ok) => zonesCache'.cached
  /\ (zonesCache.cached /\ ~deleting) =>
        /\ zonesCache' = zonesCache
        /\ \A i \in 1..Len(zonesCache.value) :
             /\ zone'[zonesCache.value[i]].live
             /\ zone'[zonesCache.value[i]].data = zone[zonesCache.value[i]].data
  /\ hostApiData.cached => hostApiData' = hostApiData
  /\ (hostApiData.cached /\ ~releasing) => ~LooksUp(calls')
  /\ (~releasing /\ LooksUp(calls') /\ (Len(calls') > 1 \/ lastOp'.ok)) =>
        hostApiData'.cached

C13_FetchedOnce == [](C13_SeededNeverLooksUp) /\ [][C13_CachedStep]_vars

C13_Witness ==
  /\ madeBy = "User.get"
  /\ lastOp.op = "User.create_host_zone" /\ lastOp.ok
  /\ calls[1].method = "full_zone_set"
  /\ zonesCache.cached /\ Len(zonesCache.value) = 1
  /\ Len(remoteZones) = 2

\* a call that clears the `records` slot of Zone z: create_record on z,
\* delete of one of its Records, or save of one with a pending `name` edit
Invalidating(z) ==
  \/ \E type \in Types, ttl \in Ttls, proxied \in Proxieds, priority \in Priorities :
       CreateRecord(z, type, ttl, proxied, priority)
  \/ \E o \in RecHandles : rec[o].zone = z /\ RecordDelete(o)
  \/ \E o \in RecHandles :
       rec[o].zone = z /\ "name" \in DOMAIN rec[o].updates /\ RecordSave(o)

\* C14: a `records` access that finds the index cached issues no request and
\* returns the cached mapping; an access that builds it queries the listing
\* and caches what it built; a cached index stays as it is over every call
\* but create_record, Record.delete and a Record.save with a `name` edit.
\* iter_records always queries the listing and leaves the slot as it was,
\* filled or not.
C14_IndexStep ==
  \A z \in ZoneHandles :
    /\ (zone[z].records.cached /\ ZoneRecords(z)) =>
          (calls' = <<>> /\ lastOp'.ok /\ zone' = zone /\ rec' = rec)
    /\ (~zone[z].records.cached /\ ZoneRecords(z)) =>
          /\ calls' # <<>>
          /\ \A i \in 1..Len(calls') : calls'[i].method = "get_dns_records"
          /\ (lastOp'.ok => zone'[z].records.cached)
    /\ (zone[z].records.cached /\ zone'[z].records # zone[z].records) =>
          Invalidating(z)
    /\ IterRecords(z) =>
          /\ calls' # <<>>
          /\ \A i \in 1..Len(calls') : calls'[i].method = "get_dns_records"
          /\ zone' = zone

C14_IndexBuiltOnce == [][C14_IndexStep]_vars

C14_Witness ==
  /\ lastOp.op = "Zone.iter_records" /\ lastOp.ok
  /\ Len(lastOp.result) = 1
  /\ calls # <<>>
  /\ zone[lastOp.zone].records.cached
  /\ DOMAIN zone[lastOp.zone].records.value = {"a"}
  /\ ~InIndex(lastOp.result[1])
  /\ rec[lastOp.result[1]].live

\* C15: in every state of a ZoneSettings object, every key of the pending
\* edits is a setting id of the current snapshot whose descriptor is
\* editable.
C15_EditsAreEditableSettings ==
  settings.built =>
    \A name \in DOMAIN settings.updates :
      /\ name \in DOMAIN settings.settings
      /\ settings.settings[name]["editable"]

\* C16, amended: a write to a field of the snapshot issues no request and leaves the
\* snapshot and the provider as they were; after it the field reads as the
\* value written and every other field reads as before.  What a Record's
\* fields read as changes only by a write to the Record and by a save of it
\* that returns, and a field with no pending edit reads as its snapshot
\* value.  A read returns the pending edit, else the snapshot value, and
\* changes nothing.
C16_UneditedReadSnapshot ==
  \A o \in RecHandles :
    \A f \in (DOMAIN rec[o].data) \ (DOMAIN rec[o].updates) :
      RecordGetAttr(rec[o], f) = rec[o].data[f]

C16_StagedStep ==
  \A o \in RecHandles :
    /\ (RecordSetAttr(o) /\ lastOp'.ok) =>
          /\ calls' = <<>>
          /\ remoteRecords' = remoteRecords
          /\ rec'[o].data = rec[o].data
          /\ RecordGetAttr(rec'[o], lastOp'.arg) = lastOp'.new
          /\ \A f \in (DOMAIN rec[o].data) \ {lastOp'.arg} :
               RecordGetAttr(rec'[o], f) = RecordGetAttr(rec[o], f)
    /\ (rec[o].live /\ rec'[o].live /\ ~RecordSetAttr(o)
          /\ ~(RecordSave(o) /\ lastOp'.ok)) =>
          \A f \in DOMAIN rec[o].data :
            RecordGetAttr(rec'[o], f) = RecordGetAttr(rec[o], f)
    /\ (RecordRead(o) /\ lastOp'.ok) =>
          /\ rec' = rec
          /\ lastOp'.result = IF lastOp'.arg \in DOMAIN rec[o].updates
                              THEN rec[o].updates[lastOp'.arg]
                              ELSE rec[o].data[lastOp'.arg]

C16_WriteIsStaged == [](C16_UneditedReadSnapshot) /\ [][C16_StagedStep]_vars

\* C16 as stated: after a write to a field of the snapshot, every other
\* field of the Record reads as its snapshot value.
C16_OthersReadSnapshotStep ==
  \A o \in RecHandles :
    (RecordSetAttr(o) /\ lastOp'.ok) =>
      \A f \in (DOMAIN rec[o].data) \ {lastOp'.arg} :
        RecordGetAttr(rec'[o], f) = rec[o].data[f]

C16_OthersReadSnapshot == [][C16_OthersReadSnapshotStep]_vars

C16_Witness ==
  /\ lastOp.op = "Record.__getattr__" /\ lastOp.ok
  /\ lastOp.arg = "name" /\ lastOp.result = "b"
  /\ rec[lastOp.rec].live
  /\ rec[lastOp.rec].data["name"] = "a"
  /\ rec[lastOp.rec].data["content"] = "2.2.2.2"
  /\ RecordGetAttr(rec[lastOp.rec], "content") = "1.1.1.1"
  /\ remoteRecords[1][1]["name"] = "a"

\* C17: reading a setting returns its pending edit when it has one, else the
\* value of its descriptor in the snapshot, and raises AttributeError for a
\* name that is in neither; iterating yields the setting ids of the snapshot,
\* each once, in ascending order, whatever the pending edits.  Neither issues
\* a request or changes the object.
C17_ReadStep ==
  /\ SettingsRead =>
        /\ calls' = <<>> /\ settings' = settings
        /\ IF lastOp'.arg \in DOMAIN settings.updates
           THEN lastOp'.ok /\ lastOp'.result = settings.updates[lastOp'.arg]
           ELSE IF lastOp'.arg \in DOMAIN settings.settings
           THEN /\ lastOp'.ok
                /\ lastOp'.result = settings.settings[lastOp'.arg]["value"]
           ELSE ~lastOp'.ok /\ lastOp'.err = "AttributeError"
  /\ SettingsIterate =>
        LET ids == lastOp'.result IN
        /\ calls' = <<>> /\ settings' = settings
        /\ {ids[i] : i \in 1..Len(ids)} = DOMAIN settings.settings
        /\ \A i \in 1..Len(ids) : \A j \in 1..Len(ids) :
             i < j => Rank(ids[i]) < Rank(ids[j])

C17_ReadsAndIteration == [][C17_ReadStep]_vars

C17_Witness ==
  /\ lastOp.op = "ZoneSettings.__getattr__" /\ lastOp.ok
  /\ lastOp.arg = "ssl" /\ lastOp.result = "on"
  /\ settings.settings["ssl"]["value"] = "off"
  /\ DOMAIN settings.updates = {"ssl"}
  /\ SettingsIter(settings) = <<"ipv6", "plan", "ssl">>

\* C18: a Record.save whose update_dns_record raises passes the error on and
\* leaves every Record (snapshot and pending edits) and every cached index
\* as they were; a save of the same Record right after it issues the same
\* request again.
C18_FailedSaveStep ==
  \A o \in RecHandles :
    /\ (RecordSave(o) /\ ~lastOp'.ok) =>
          /\ lastOp'.err = "ProviderError"
          /\ Len(calls') = 1 /\ calls'[1].method = "update_dns_record"
          /\ rec' = rec
          /\ zone' = zone
    /\ (lastOp.op = "Record.save" /\ ~lastOp.ok /\ lastOp.rec = o /\ RecordSave(o)) =>
          /\ calls' = calls
          /\ calls'[1].args["data"] = rec[o].updates

C18_FailedSaveKeepsEdits == [][C18_FailedSaveStep]_vars

C18_Witness ==
  /\ lastOp.op = "Record.save" /\ ~lastOp.ok
  /\ rec[lastOp.rec].live
  /\ DOMAIN rec[lastOp.rec].updates = {"name", "content"}
  /\ calls[1].args["data"] = rec[lastOp.rec].updates
  /\ rec[lastOp.rec].data["name"] = "a"
  /\ zone[lastOp.zone].records.cached
  /\ InIndex(lastOp.rec)

\* C19: a ZoneSettings.save in which a request raises (set_zone_settings, or
\* a get_zone_settings of the re-fetch) passes the error on and keeps the
\* pending edits; when set_zone_settings raised, the snapshot is as it was;
\* and in every case each pending edit is still a setting id of the snapshot.
C19_FailedSaveStep ==
  (SettingsSave /\ ~lastOp'.ok) =>
    /\ lastOp'.err = "ProviderError"
    /\ settings'.updates = settings.updates
    /\ (Len(calls') = 1 => settings'.settings = settings.settings)
    /\ (DOMAIN settings'.updates) \subseteq (DOMAIN settings'.settings)

C19_FailedSaveKeepsObjectSound == [][C19_FailedSaveStep]_vars

\* C20: Zone.delete issues one delete_zone request and Record.delete one
\* delete_dns_record request; when the request returned, the parent's slot
\* (`zones` of the User, `records` of the Zone) is cleared; when it raised,
\* the error is passed on and the slot is as it was before the call.
C20_DeleteStep ==
  /\ \A z \in ZoneHandles :
       ZoneDelete(z) =>
         /\ Len(calls') = 1 /\ calls'[1].method = "delete_zone"
         /\ (lastOp'.ok => zonesCache' = NotCached)
         /\ (~lastOp'.ok =>
               lastOp'.err = "ProviderError" /\ zonesCache' = zonesCache)
  /\ \A o \in RecHandles :
       RecordDelete(o) =>
         /\ Len(calls') = 1 /\ calls'[1].method = "delete_dns_record"
         /\ (lastOp'.ok => zone'[rec[o].zone].records = NotCached)
         /\ (~lastOp'.ok =>
               lastOp'.err = "ProviderError" /\ zone' = zone)

C20_InvalidateAfterDelete == [][C20_DeleteStep]_vars

C20_Witness ==
  /\ lastOp.op = "Zone.delete" /\ ~lastOp.ok
  /\ calls[1].method = "delete_zone"
  /\ zonesCache.cached /\ Len(zonesCache.value) = 1
  /\ zone[lastOp.zone].records.cached
  /\ DOMAIN zone[lastOp.zone].records.value = {"a"}
  /\ Len(remoteZones) = 1
====
